---------------------------- MODULE Spec2Model ----------------------------
(***************************************************************************)
(* A model of xbfuse: the in-memory directory tree (src/src/tree.c), the   *)
(* FUSE operations that query it, and the XDVD filesystem scanner and      *)
(* directory parser that build it (src/src/xdvdfs.c).                      *)
(*                                                                         *)
(* C strings are sequences of byte values (0..255) without the terminating *)
(* NUL; pointers to struct tree are indices into the heap `tree`, 0 being  *)
(* NULL and 1 the root allocated by tree_empty().                          *)
(***************************************************************************)
EXTENDS Integers, Sequences, FiniteSets, TLC

VARIABLES
    tree,       \* heap of struct tree nodes; tree[1] is the root
    calls,      \* history of tree_insert calls: [path, offset, size]
    pc,         \* per FUSE call: where the call stands
    req,        \* per FUSE call: the arguments FUSE passed
    loc,        \* per FUSE call: the locals node, size, ret of the handler
    fdpos,      \* the seek cursor of the one descriptor xbfs->fd
    mutex,      \* xbfs->mutex: 0 when unlocked, else the call holding it
    image,      \* the backing file: its length and what its bytes hold
    ipc,        \* where xbfs_init stands
    vol,        \* filesystem_base_offset, root_directory_sector and _size
    stack,      \* the activation records of the two recursive parsers
    loads,      \* history of directory loads: [name, sector, size, ok]
    past,       \* bytes written past the end of a name_copy buffer
    oob         \* a byte outside a directory buffer was read

vars ==
    <<tree, calls, pc, req, loc, fdpos, mutex, image, ipc, vol, stack,
      loads, past, oob>>

treeVars == <<tree, calls>>

fuseVars == <<pc, req, loc, fdpos, mutex>>

initVars == <<image, ipc, vol, stack, loads, past, oob>>

----------------------------------------------------------------------------
(* Characters *)

\* '/' as used by memchr(path, '/', length)
Slash == 47

\* the string terminator '\0'
NUL == 0

\* NULL pointer of struct tree *
NULL == 0

\* SECTOR_SIZE
SectorSize == 2048

\* NAME_MAX_SIZE, the size of the name_copy and name_buffer arrays
NAME_MAX_SIZE == 1024

\* XDVD_SIGNATURE_SIZE
XDVD_SIGNATURE_SIZE == 20

\* XDVD_SIGNATURE, "MICROSOFT*XBOX*MEDIA"
XDVD_SIGNATURE ==
    <<77, 73, 67, 82, 79, 83, 79, 70, 84, 42,
      88, 66, 79, 88, 42, 77, 69, 68, 73, 65>>

\* errno values returned negated by the FUSE operations
ENOENT == 2

ENOTDIR == 20

EISDIR == 21

EROFS == 30

\* open(2) access modes in fi->flags
O_RDONLY == 0

O_WRONLY == 1

O_RDWR == 2

\* the C operator & on non-negative ints
RECURSIVE BitAnd(_, _)
BitAnd(a, b) ==
    IF a = 0 \/ b = 0 THEN 0
    ELSE (IF a % 2 = 1 /\ b % 2 = 1 THEN 1 ELSE 0)
         + 2 * BitAnd(a \div 2, b \div 2)

Min(a, b) == IF a < b THEN a ELSE b

\* memchr(path + i - 1, c, length): index of the first c in path from the
\* i-th byte on, 0 when absent
memchr_from(path, c, i) ==
    LET hits == {j \in i..Len(path) : path[j] = c}
    IN  IF hits = {} THEN 0
        ELSE CHOOSE j \in hits : \A k \in hits : j <= k

\* strlen-style view of a byte buffer: the bytes before the first NUL
CStr(s) ==
    LET nul == memchr_from(s, NUL, 1)
    IN  IF nul = 0 THEN s ELSE SubSeq(s, 1, nul - 1)

memchr(path, c) == memchr_from(path, c, 1)

\* strncmp(path, name, strlen(name)) == 0
HasPrefix(path, name) ==
    /\ Len(name) <= Len(path)
    /\ SubSeq(path, 1, Len(name)) = name

----------------------------------------------------------------------------
(* struct tree and tree.c *)

\* a freshly allocated directory node (tree.c:53-60)
NewDir(name, next) ==
    [name |-> name, is_dir |-> 1, offset |-> 0, size |-> 0,
     nsubdirs |-> 0, sub |-> NULL, next |-> next]

\* MUTANT of NewFile: offset and size stored in each other's field
NewFileSwapped(name, offset, size, next) ==
    [name |-> name, is_dir |-> 0, offset |-> size, size |-> offset,
     nsubdirs |-> 0, sub |-> NULL, next |-> next]

\* a freshly allocated file node (tree.c:72-79)
NewFile(name, offset, size, next) ==
    [name |-> name, is_dir |-> 0, offset |-> offset, size |-> size,
     nsubdirs |-> 0, sub |-> NULL, next |-> next]

\* tree_empty(): the heap holding only the root directory, named ""
tree_empty == <<NewDir(<<>>, NULL)>>

\* connect a new directory under root and count it (tree.c:62-64)
LinkDir(T, root, new) ==
    [T EXCEPT ![root].sub = new, ![root].nsubdirs = @ + 1]

\* MUTANT of LinkFile: a new file is counted as a subdirectory
LinkFileCounted(T, root, new) ==
    [T EXCEPT ![root].sub = new, ![root].nsubdirs = @ + 1]

\* connect a new file under root (tree.c:80)
LinkFile(T, root, new) ==
    [T EXCEPT ![root].sub = new]

\* the while loop of tree_insert: the first node of the sibling list
\* starting at node whose name is strcmp-equal to name, NULL when none
RECURSIVE FindChild(_, _, _)
FindChild(T, node, name) ==
    IF node = NULL THEN NULL
    ELSE IF T[node].name = name THEN node
    ELSE FindChild(T, T[node].next, name)

\* tree_insert(root, path, length, offset, size); path holds length bytes
RECURSIVE tree_insert(_, _, _, _, _)
tree_insert(T, root, path, offset, size) ==
    IF path = <<>> THEN T
    ELSE
      LET pos == memchr(path, Slash) IN
      IF pos # 0 THEN
        LET dirname == SubSeq(path, 1, pos - 1)
            rest    == SubSeq(path, pos + 1, Len(path))
            node    == FindChild(T, T[root].sub, dirname)
        IN  IF node # NULL THEN tree_insert(T, node, rest, offset, size)
            ELSE
              LET new == Len(T) + 1
                  T1  == Append(T, NewDir(dirname, T[root].sub))
              IN  tree_insert(LinkDir(T1, root, new), new, rest, offset, size)
      ELSE
        LET new == Len(T) + 1
            T1  == Append(T, NewFile(path, offset, size, T[root].sub))
        IN  LinkFile(T1, root, new)

\* tree_find_entry(root, path): the node found, NULL when none
RECURSIVE tree_find_entry(_, _, _)
RECURSIVE FindInSiblings(_, _, _)
tree_find_entry(T, root, path) ==
    IF root = NULL THEN NULL
    ELSE IF path = T[root].name THEN root
    ELSE IF ~HasPrefix(path, T[root].name) THEN NULL
    ELSE
      LET n == Len(T[root].name) IN
      IF n >= Len(path) \/ path[n + 1] # Slash THEN NULL
      ELSE
        LET next == SubSeq(path, n + 2, Len(path)) IN
        IF next = <<>> THEN root
        ELSE FindInSiblings(T, T[root].sub, next)

\* the while loop of tree_find_entry over root->sub
FindInSiblings(T, node, next) ==
    IF node = NULL THEN NULL
    ELSE
      LET ret == tree_find_entry(T, node, next) IN
      IF ret # NULL THEN ret
      ELSE FindInSiblings(T, T[node].next, next)

\* the nodes of the sibling list starting at node
RECURSIVE Siblings(_, _)
Siblings(T, node) ==
    IF node = NULL THEN {}
    ELSE {node} \cup Siblings(T, T[node].next)

\* the direct children of node n: the list n->sub, n->sub->next, ...
Children(T, n) == Siblings(T, T[n].sub)

\* tree_getattr(path, stbuf, root, fd): the return value and the stat
\* fields that come from the tree
tree_getattr(T, path) ==
    LET node == tree_find_entry(T, 1, path) IN
    IF node # NULL THEN
      IF T[node].is_dir # 0 THEN
        [ret |-> 0,
         st_mode |-> {"S_IFDIR", "S_IRUSR", "S_IRGRP", "S_IROTH",
                      "S_IXUSR", "S_IXGRP", "S_IXOTH"},
         st_nlink |-> 2 + T[node].nsubdirs,
         st_size |-> 0]
      ELSE
        [ret |-> 0,
         st_mode |-> {"S_IFREG", "S_IRUSR", "S_IRGRP", "S_IROTH"},
         st_nlink |-> 1,
         st_size |-> T[node].size]
    ELSE
      [ret |-> -ENOENT, st_mode |-> {}, st_nlink |-> 0, st_size |-> 0]

\* tree_open(path, fi, root): the return value
tree_open(T, path, flags) ==
    IF BitAnd(flags, O_WRONLY) # 0 THEN -EROFS
    ELSE IF tree_find_entry(T, 1, path) = NULL THEN -ENOENT
    ELSE 0

\* the sibling list starting at node, in list order
RECURSIVE SiblingSeq(_, _)
SiblingSeq(T, node) ==
    IF node = NULL THEN <<>>
    ELSE <<node>> \o SiblingSeq(T, T[node].next)

\* tree_readdir, lines 261-265: the names of the list node->sub
tree_readdir_names(T, node) ==
    LET list == SiblingSeq(T, T[node].sub)
    IN  [j \in DOMAIN list |-> T[list[j]].name]

\* tree_readdir(path, buf, filler, ...): the return value and the names
\* handed to filler after "." and ".."
tree_readdir(T, path) ==
    LET node == tree_find_entry(T, 1, path) IN
    IF node = NULL THEN [ret |-> -ENOENT, names |-> <<>>]
    ELSE IF T[node].is_dir = 0 THEN [ret |-> -ENOTDIR, names |-> <<>>]
    ELSE [ret |-> 0, names |-> tree_readdir_names(T, node)]

\* MUTANT of ClipSize: the clipped size forgets the offset
ClipSizeWhole(size, offset, filesize) ==
    IF offset + size > filesize THEN filesize ELSE size

\* tree_read, lines 216-217: size clipped to the end of the file
ClipSize(size, offset, filesize) ==
    IF offset + size > filesize THEN filesize - offset ELSE size

\* tree_read up to the lock (lines 207-217): the node found, whether the
\* call returns before touching fd (and what), and the clipped size
tree_read_begin(T, path, size, offset) ==
    LET node == tree_find_entry(T, 1, path) IN
    IF node = NULL THEN
      [node |-> NULL, returns |-> TRUE, ret |-> -ENOENT, size |-> size]
    ELSE IF T[node].is_dir # 0 THEN
      [node |-> node, returns |-> TRUE, ret |-> -EISDIR, size |-> size]
    ELSE IF offset >= T[node].size THEN
      [node |-> node, returns |-> TRUE, ret |-> 0, size |-> size]
    ELSE
      [node |-> node, returns |-> FALSE, ret |-> 0,
       size |-> ClipSize(size, offset, T[node].size)]

----------------------------------------------------------------------------
(* Inputs of the PathTree specification *)

\* the longest path handed to tree_insert
MaxPathLen == 3

\* the number of tree_insert calls in one run
MaxInserts == 3

\* the bytes paths are made of: 'a' and '/'
PathChars == {97, Slash}

\* every relative path of at most MaxPathLen bytes, the empty one
\* included; tree.h:112-114 asks for no '/' in the beginning
Paths ==
    {p \in UNION {[1..n -> PathChars] : n \in 0..MaxPathLen} :
        p = <<>> \/ p[1] # Slash}

\* the absolute path FUSE passes for the relative path p
Abs(p) == <<Slash>> \o p

\* the i-th call stores a file at sector i with i bytes
CallOffset(i) == i * SectorSize

CallSize(i) == i

----------------------------------------------------------------------------
(* PathTree: any sequence of tree_insert calls on the empty tree *)

\* the FUSE side before any call is dispatched
FuseQuiet ==
    /\ pc = <<>>
    /\ req = <<>>
    /\ loc = <<>>
    /\ fdpos = 0
    /\ mutex = 0

\* no image is being parsed: xbfs_init has returned
NoImage == [len |-> 0, fill |-> 0, extents |-> {}]

InitQuiet ==
    /\ image = NoImage
    /\ ipc = "done"
    /\ vol = [base |-> 0, root_sector |-> 0, root_size |-> 0, sig |-> -1]
    /\ stack = <<>>
    /\ loads = <<>>
    /\ past = 0
    /\ oob = FALSE

InitTree ==
    /\ tree = tree_empty
    /\ calls = <<>>
    /\ FuseQuiet
    /\ InitQuiet

Insert(path) ==
    /\ Len(calls) < MaxInserts
    /\ LET i == Len(calls) + 1 IN
        /\ tree' = tree_insert(tree, 1, path, CallOffset(i), CallSize(i))
        /\ calls' = Append(calls, [path |-> path, offset |-> CallOffset(i),
                                   size |-> CallSize(i)])
    /\ UNCHANGED <<fuseVars, initVars>>

NextTree == \E path \in Paths : Insert(path)

SpecTree == InitTree /\ [][NextTree]_vars

----------------------------------------------------------------------------
(* FUSE calls on a mounted tree *)

\* lseek(fd, target, SEEK_SET): the new cursor; a negative target fails
\* with EINVAL and leaves the cursor where it was (the result is ignored)
lseek(pos, target) == IF target < 0 THEN pos ELSE target

\* read(fd, buf, count): what the kernel may return: all the bytes asked
\* for, fewer of them, or -1
ReadOutcomes(count) ==
    {count, -1} \cup (IF count > 0 THEN {count - 1} ELSE {})

\* MUTANT of ReadReturn: the lock is kept when read() failed
ReadReturnKeepOnError(holder, ret) == IF ret < 0 THEN holder ELSE 0

\* pthread_mutex_unlock(mutex) after read() returned ret: the new holder
ReadReturn(holder, ret) == 0

\* the tree a mount serves: built by tree_insert from the file records
\* f (3 bytes at sector 2) and d/g (2 bytes at sector 3)
MountScript ==
    << [path |-> <<102>>, offset |-> 2 * SectorSize, size |-> 3],
       [path |-> <<100, Slash, 103>>, offset |-> 3 * SectorSize, size |-> 2] >>

RECURSIVE TreeOf(_)
TreeOf(script) ==
    IF script = <<>> THEN tree_empty
    ELSE LET c == script[Len(script)] IN
         tree_insert(TreeOf(SubSeq(script, 1, Len(script) - 1)), 1,
                     c.path, c.offset, c.size)

\* the paths FUSE asks about: the files /f and /d/g, the directory /d,
\* and /x, which does not exist
FusePaths ==
    {<<Slash, 102>>, <<Slash, 100, Slash, 103>>, <<Slash, 100>>,
     <<Slash, 120>>}

\* the largest offset and size of a read request
MaxReadOffset == 4

MaxReadSize == 4

\* the number of calls FUSE dispatches concurrently
NumCalls == 2

\* the requests of the sequential specification
SeqRequests ==
    {[op |-> "read", path |-> p, size |-> n, offset |-> o, flags |-> O_RDONLY] :
        p \in FusePaths, n \in 0..MaxReadSize, o \in 0..MaxReadOffset}
    \cup
    {[op |-> "open", path |-> p, size |-> 0, offset |-> 0, flags |-> f] :
        p \in FusePaths, f \in {O_RDONLY, O_WRONLY, O_RDWR}}

\* the requests of the concurrent specification: reads of both files at
\* two offsets, a read of the directory, and an open
ConcRequests ==
    {[op |-> "read", path |-> p, size |-> 2, offset |-> o, flags |-> O_RDONLY] :
        p \in {<<Slash, 102>>, <<Slash, 100, Slash, 103>>}, o \in {0, 1}}
    \cup
    {[op |-> "read", path |-> <<Slash, 100>>, size |-> 2, offset |-> 0,
      flags |-> O_RDONLY],
     [op |-> "open", path |-> <<Slash, 102>>, size |-> 0, offset |-> 0,
      flags |-> O_RDONLY]}

NoReq == [op |-> "none", path |-> <<>>, size |-> 0, offset |-> 0, flags |-> 0]

\* node, size and ret are the handler's locals; at is the cursor at which
\* its read() started (-1: no read yet), nio the number of lseek and read
\* calls it made on fd
\* calls it made on fd, full whether read() delivered every byte asked for
NoLoc ==
    [node |-> NULL, size |-> 0, ret |-> 0, at |-> -1, nio |-> 0,
     full |-> FALSE]

InitFuse(n) ==
    /\ tree = TreeOf(MountScript)
    /\ calls = MountScript
    /\ pc = [c \in 1..n |-> "new"]
    /\ req = [c \in 1..n |-> NoReq]
    /\ loc = [c \in 1..n |-> NoLoc]
    /\ fdpos \in {0, SectorSize}
    /\ mutex = 0
    /\ InitQuiet

\* xbfs_open -> tree_open
FuseOpen(c, r) ==
    /\ pc[c] = "new"
    /\ r.op = "open"
    /\ req' = [req EXCEPT ![c] = r]
    /\ loc' = [loc EXCEPT ![c].node = tree_find_entry(tree, 1, r.path),
                          ![c].ret = tree_open(tree, r.path, r.flags)]
    /\ pc' = [pc EXCEPT ![c] = "ret"]
    /\ UNCHANGED <<treeVars, initVars, fdpos, mutex>>

\* xbfs_read -> tree_read, up to pthread_mutex_lock
FuseRead(c, r) ==
    /\ pc[c] = "new"
    /\ r.op = "read"
    /\ LET b == tree_read_begin(tree, r.path, r.size, r.offset) IN
        /\ req' = [req EXCEPT ![c] = r]
        /\ loc' = [loc EXCEPT ![c].node = b.node, ![c].size = b.size,
                              ![c].ret = b.ret]
        /\ pc' = [pc EXCEPT ![c] = IF b.returns THEN "ret" ELSE "lock"]
    /\ UNCHANGED <<treeVars, initVars, fdpos, mutex>>

\* pthread_mutex_lock(mutex) returns
ReadLock(c) ==
    /\ pc[c] = "lock"
    /\ mutex = 0
    /\ mutex' = c
    /\ pc' = [pc EXCEPT ![c] = "seek"]
    /\ UNCHANGED <<treeVars, initVars, req, loc, fdpos>>

\* lseek(fd, node->offset + offset, SEEK_SET)
ReadSeek(c) ==
    /\ pc[c] = "seek"
    /\ fdpos' = lseek(fdpos, tree[loc[c].node].offset + req[c].offset)
    /\ loc' = [loc EXCEPT ![c].nio = @ + 1]
    /\ pc' = [pc EXCEPT ![c] = "read"]
    /\ UNCHANGED <<treeVars, initVars, req, mutex>>

\* ret = read(fd, buf, size)
ReadRead(c) ==
    /\ pc[c] = "read"
    /\ \E n \in ReadOutcomes(loc[c].size) :
        /\ loc' = [loc EXCEPT ![c].ret = n, ![c].at = fdpos, ![c].nio = @ + 1,
                              ![c].full = (n = loc[c].size)]
        /\ fdpos' = IF n > 0 THEN fdpos + n ELSE fdpos
    /\ pc' = [pc EXCEPT ![c] = "unlock"]
    /\ UNCHANGED <<treeVars, initVars, req, mutex>>

\* pthread_mutex_unlock(mutex); return ret
ReadUnlock(c) ==
    /\ pc[c] = "unlock"
    /\ mutex' = ReadReturn(mutex, loc[c].ret)
    /\ pc' = [pc EXCEPT ![c] = "ret"]
    /\ UNCHANGED <<treeVars, initVars, req, loc, fdpos>>

\* the steps of a call after its dispatch
ReadStep(c) ==
    ReadLock(c) \/ ReadSeek(c) \/ ReadRead(c) \/ ReadUnlock(c)

InitSeq == InitFuse(1)

NextSeq ==
    \/ \E c \in DOMAIN pc, r \in SeqRequests : FuseOpen(c, r)
    \/ \E c \in DOMAIN pc, r \in SeqRequests : FuseRead(c, r)
    \/ \E c \in DOMAIN pc : ReadLock(c)
    \/ \E c \in DOMAIN pc : ReadSeek(c)
    \/ \E c \in DOMAIN pc : ReadRead(c)
    \/ \E c \in DOMAIN pc : ReadUnlock(c)

\* one call at a time: what each FUSE operation returns
SpecSeq == InitSeq /\ [][NextSeq]_vars

InitConc == InitFuse(NumCalls)

NextConc ==
    \/ \E c \in DOMAIN pc, r \in ConcRequests : FuseOpen(c, r)
    \/ \E c \in DOMAIN pc, r \in ConcRequests : FuseRead(c, r)
    \/ \E c \in DOMAIN pc : ReadLock(c)
    \/ \E c \in DOMAIN pc : ReadSeek(c)
    \/ \E c \in DOMAIN pc : ReadRead(c)
    \/ \E c \in DOMAIN pc : ReadUnlock(c)

\* FUSE's thread pool runs every dispatched call on: a thread that can
\* take a step eventually takes it
SpecConc ==
    InitConc /\ [][NextConc]_vars /\ \A c \in 1..NumCalls : WF_vars(ReadStep(c))

----------------------------------------------------------------------------
(* The backing file *)

\* byte j (0 the lowest) of the little-endian encoding of v
LEByte(v, j) == (v \div (256 ^ j)) % 256

\* what an image holds at absolute byte offset at:
\*   vd:  a volume descriptor: 20 bytes of magic, root sector, root size
\*   rec: a directory record: left and right pointer (in units of 4
\*        bytes), data sector, data size, attributes, name length, name
VolumeDescriptor(at, magic, root_sector, root_size) ==
    [kind |-> "vd", at |-> at, magic |-> magic, sector |-> root_sector,
     size |-> root_size, left |-> 0, right |-> 0, attr |-> 0, nlen |-> 0,
     name |-> <<>>]

DirectoryRecord(at, left, right, sector, size, attr, nlen, name) ==
    [kind |-> "rec", at |-> at, magic |-> <<>>, sector |-> sector,
     size |-> size, left |-> left, right |-> right, attr |-> attr,
     nlen |-> nlen, name |-> name]

ExtentLen(e) ==
    IF e.kind = "vd" THEN XDVD_SIGNATURE_SIZE + 8
    ELSE 14 + Len(e.name)

\* byte j (from 0) of extent e
ExtentByte(e, j) ==
    IF e.kind = "vd" THEN
      IF j < XDVD_SIGNATURE_SIZE THEN e.magic[j + 1]
      ELSE IF j < XDVD_SIGNATURE_SIZE + 4
        THEN LEByte(e.sector, j - XDVD_SIGNATURE_SIZE)
      ELSE LEByte(e.size, j - XDVD_SIGNATURE_SIZE - 4)
    ELSE
      IF j < 2 THEN LEByte(e.left, j)
      ELSE IF j < 4 THEN LEByte(e.right, j - 2)
      ELSE IF j < 8 THEN LEByte(e.sector, j - 4)
      ELSE IF j < 12 THEN LEByte(e.size, j - 8)
      ELSE IF j = 12 THEN e.attr
      ELSE IF j = 13 THEN e.nlen
      ELSE e.name[j - 13]

\* the byte of the image at absolute offset i < img.len
Byte(img, i) ==
    LET hit == {e \in img.extents : e.at <= i /\ i < e.at + ExtentLen(e)} IN
    IF hit = {} THEN img.fill
    ELSE LET e == CHOOSE x \in hit : TRUE IN ExtentByte(e, i - e.at)

\* read(fd, buf, count) with the cursor at pos: the bytes transferred
ReadCount(img, pos, count) ==
    IF pos >= img.len THEN 0 ELSE Min(count, img.len - pos)

----------------------------------------------------------------------------
(* xdvdfs.c: xbfs_init and the two recursive parsers *)

\* MUTANT of LE_16: the two bytes taken in big-endian order
BE_16(b0, b1) == (b0 * 256) + b1

\* LE_16(x) for the bytes x[0], x[1]
LE_16(b0, b1) == (b1 * 256) + b0

\* MUTANT of LE_32: the four bytes taken in big-endian order
BE_32(b0, b1, b2, b3) ==
    (b0 * 16777216) + (b1 * 65536) + (b2 * 256) + b3

\* LE_32(x) for the bytes x[0] .. x[3], stored in an unsigned int. The
\* images keep x[3] below 128, so that the shift by 24 stays clear of the
\* sign bit and the value is the same in an int and in an unsigned int.
LE_32(b0, b1, b2, b3) ==
    (b3 * 16777216) + (b2 * 65536) + (b1 * 256) + b0

\* filesystem_base_offset + (off_t)sector * SECTOR_SIZE. off_t has 64 bits,
\* so the product never wraps; an offset from 2^30 on, which is past the
\* end of every image, is kept as 2^30.
SectorOffset(base, sector) ==
    IF sector >= 524288 THEN 1073741824
    ELSE Min(base + (sector * SectorSize), 1073741824)

\* the directory bit of a record's attribute byte; the images give files
\* the attribute bytes 32 (archive) and 128 (normal)
ATTR_DIR == 16

\* the deepest chain of parser activations the stack has room for
MaxStack == 12

\* what a byte past the end of a malloc'ed directory buffer may hold
JunkBytes == {0, 97, 255}

\* an activation of xbfs_recurse_directory (fn = "dir") or of
\* xbfs_recurse_file_subtree (fn = "sub")
DirFrame(name_buffer, sector, size) ==
    [fn |-> "dir", st |-> "load", name_buffer |-> name_buffer,
     sector |-> sector, size |-> size, bufbase |-> 0, off |-> 0]

SubFrame(name_buffer, bufbase, size, off) ==
    [fn |-> "sub", st |-> "enter", name_buffer |-> name_buffer,
     sector |-> 0, size |-> size, bufbase |-> bufbase, off |-> off]

Top == stack[Len(stack)]

\* dir_entry[i] of the activation f; past the buffer it is junk
BufByte(f, i, junk) ==
    IF i < f.size THEN Byte(image, f.bufbase + i) ELSE junk

\* the running activation returns to its caller; xbfs_init returns when
\* the root's xbfs_recurse_directory does
Return ==
    /\ stack' = SubSeq(stack, 1, Len(stack) - 1)
    /\ ipc' = IF Len(stack) = 1 THEN "done" ELSE ipc

\* the running activation moves to state st and calls f; the call crashes
\* the process when the stack has no room left
Call(st, f) ==
    IF Len(stack) < MaxStack
    THEN /\ stack' = Append([stack EXCEPT ![Len(stack)].st = st], f)
         /\ ipc' = ipc
    ELSE /\ stack' = stack
         /\ ipc' = "crashed"

\* one round of the while (1) loop of xbfs_init
ScanSector ==
    /\ ipc = "scan"
    /\ LET n == ReadCount(image, fdpos, SectorSize)
           S(i) == Byte(image, fdpos + i)
       IN
       /\ fdpos' = fdpos + n
       /\ IF n # SectorSize THEN
            /\ ipc' = "failed"
            /\ UNCHANGED <<vol, stack, tree>>
          ELSE IF [i \in 1..XDVD_SIGNATURE_SIZE |-> S(i - 1)] = XDVD_SIGNATURE
          THEN
            LET root_sector == LE_32(S(20), S(21), S(22), S(23))
                root_size   == LE_32(S(24), S(25), S(26), S(27))
            IN
            /\ vol' = [base |-> vol.base - (32 * SectorSize),
                       root_sector |-> root_sector,
                       root_size |-> root_size,
                       sig |-> fdpos \div SectorSize]
            /\ tree' = tree_empty
            /\ stack' = <<DirFrame(<<>>, root_sector, root_size)>>
            /\ ipc' = "build"
          ELSE
            /\ vol' = [vol EXCEPT !.base = @ + SectorSize]
            /\ UNCHANGED <<ipc, stack, tree>>
    /\ UNCHANGED <<calls, pc, req, loc, mutex, image, loads, past, oob>>

\* MUTANT of LoadFailed: a read that transfers some bytes passes
LoadFailedIfNothingRead(n, dir_entry_size) == n = 0 /\ dir_entry_size # 0

\* read(fd, dir_entry, dir_entry_size) != dir_entry_size
LoadFailed(n, dir_entry_size) == n # dir_entry_size

\* xbfs_recurse_directory up to its call of xbfs_recurse_file_subtree:
\* malloc, lseek, read of the whole directory block
RecurseDirectory ==
    /\ ipc = "build"
    /\ stack # <<>>
    /\ Top.fn = "dir"
    /\ Top.st = "load"
    /\ \E allocated \in (IF Top.size = 0 THEN BOOLEAN ELSE {TRUE}) :
       IF ~allocated THEN
         \* malloc(0) may return NULL
         /\ Return
         /\ UNCHANGED <<fdpos, loads>>
       ELSE
         LET current_offset == SectorOffset(vol.base, Top.sector)
             at == lseek(fdpos, current_offset)
             n  == ReadCount(image, at, Top.size)
         IN
         /\ fdpos' = at + n
         /\ loads' = Append(loads, [name |-> Top.name_buffer,
                                    sector |-> Top.sector,
                                    size |-> Top.size,
                                    ok |-> (n = Top.size)])
         /\ IF LoadFailed(n, Top.size) THEN Return
            ELSE Call("free",
                      SubFrame(Top.name_buffer, at, Top.size, 0))
    /\ UNCHANGED <<tree, calls, pc, req, loc, mutex, image, vol, past, oob>>

\* xbfs_recurse_file_subtree: the size check and the left subtree
SubtreeEnter ==
    /\ ipc = "build"
    /\ stack # <<>>
    /\ Top.fn = "sub"
    /\ Top.st = "enter"
    /\ IF Top.off + 13 >= Top.size THEN Return
       ELSE
         LET subtree_offset ==
               LE_16(BufByte(Top, Top.off, 0), BufByte(Top, Top.off + 1, 0)) * 4
         IN
         IF subtree_offset # 0
         THEN Call("file", SubFrame(Top.name_buffer, Top.bufbase, Top.size,
                                    subtree_offset))
         ELSE /\ stack' = [stack EXCEPT ![Len(stack)].st = "file"]
              /\ ipc' = ipc
    /\ UNCHANGED <<tree, calls, fuseVars, image, vol, loads, past, oob>>

\* xbfs_recurse_file_subtree: "process file": the record is decoded, its
\* name appended to the path in name_copy, and it is either loaded as a
\* directory or inserted as a file
SubtreeFile ==
    /\ ipc = "build"
    /\ stack # <<>>
    /\ Top.fn = "sub"
    /\ Top.st = "file"
    /\ LET o == Top.off
           filename_size == BufByte(Top, o + 13, 0)
           outside == o + 13 + filename_size >= Top.size
       IN
       \E junk \in (IF outside /\ filename_size > 0 THEN JunkBytes ELSE {0}) :
         LET B(i) == BufByte(Top, i, junk)
             file_sector == LE_32(B(o + 4), B(o + 5), B(o + 6), B(o + 7))
             file_size == LE_32(B(o + 8), B(o + 9), B(o + 10), B(o + 11))
             file_attributes == B(o + 12)
             is_dir == BitAnd(file_attributes, ATTR_DIR)
             prefix == CStr(Top.name_buffer)
             start_index == Len(prefix)
             name == [j \in 1..filename_size |-> B(o + 13 + j)]
             \* the highest index of name_copy written
             last == start_index + filename_size + (IF is_dir # 0 THEN 1 ELSE 0)
             over == IF last >= NAME_MAX_SIZE
                     THEN (last - NAME_MAX_SIZE) + 1 ELSE 0
         IN
         /\ oob' = (oob \/ (outside /\ filename_size > 0))
         /\ past' = past + over
         \* writing past name_copy is undefined: the process may die of
         \* it or go on with the path as written
         /\ \E survives \in (IF over > 0 THEN BOOLEAN ELSE {TRUE}) :
            IF ~survives THEN
              /\ ipc' = "crashed"
              /\ UNCHANGED <<stack, tree, calls>>
            ELSE IF is_dir # 0 THEN
              /\ Call("right", DirFrame(prefix \o name \o <<Slash>>,
                                        file_sector, file_size))
              /\ UNCHANGED <<tree, calls>>
            ELSE
              LET path == CStr(prefix \o name)
                  offset == SectorOffset(vol.base, file_sector)
              IN
              /\ tree' = tree_insert(tree, 1, path, offset, file_size)
              /\ calls' = Append(calls, [path |-> path, offset |-> offset,
                                         size |-> file_size])
              /\ stack' = [stack EXCEPT ![Len(stack)].st = "right"]
              /\ ipc' = ipc
    /\ UNCHANGED <<fuseVars, image, vol, loads>>

\* xbfs_recurse_file_subtree: the right subtree
SubtreeRight ==
    /\ ipc = "build"
    /\ stack # <<>>
    /\ Top.fn = "sub"
    /\ Top.st = "right"
    /\ LET subtree_offset ==
             LE_16(BufByte(Top, Top.off + 2, 0),
                   BufByte(Top, Top.off + 3, 0)) * 4
       IN
       IF subtree_offset # 0
       THEN Call("ret", SubFrame(Top.name_buffer, Top.bufbase, Top.size,
                                 subtree_offset))
       ELSE Return
    /\ UNCHANGED <<tree, calls, fuseVars, image, vol, loads, past, oob>>

\* the end of either function: free(dir_entry) in xbfs_recurse_directory,
\* the closing brace of xbfs_recurse_file_subtree
ParserReturn ==
    /\ ipc = "build"
    /\ stack # <<>>
    /\ Top.st \in {"free", "ret"}
    /\ Return
    /\ UNCHANGED <<tree, calls, fuseVars, image, vol, loads, past, oob>>

----------------------------------------------------------------------------
(* Images xbfs_init is run on *)

\* block b of an image whose volume descriptor is in sector k: the b-th
\* sector after the descriptor, which directory records name as 32 + b
BlockAt(k, b) == (k + b) * SectorSize

BlockSector(b) == 32 + b

\* a record at byte `at` of block b with the given subtree offsets
RecordIn(k, b, at, left, right, sector, size, attr, name) ==
    DirectoryRecord(BlockAt(k, b) + at, left \div 4, right \div 4, sector,
                    size, attr, Len(name), name)

\* root block: record "m" with left -> file "a.txt" and right -> directory
\* "sub"; block of sub: file "b.txt"
ExampleDisc(k, len, fill) ==
    [len |-> len, fill |-> fill,
     extents |->
       {VolumeDescriptor(k * SectorSize, XDVD_SIGNATURE, BlockSector(1), 56),
        RecordIn(k, 1, 0, 16, 36, 40, 5, 32, <<109>>),
        RecordIn(k, 1, 16, 0, 0, 41, 7, 128,
                 <<97, 46, 116, 120, 116>>),
        RecordIn(k, 1, 36, 0, 0, BlockSector(2), 20, ATTR_DIR,
                 <<115, 117, 98>>),
        RecordIn(k, 2, 0, 0, 0, 42, 9, 32,
                 <<98, 46, 116, 120, 116>>)}]

\* an image without the signature, and one whose first sector almost
\* holds it
NoSignatureDisc(len, magic) ==
    [len |-> len, fill |-> 0,
     extents |-> {VolumeDescriptor(0, magic, BlockSector(1), 56)}]

NearSignature == [XDVD_SIGNATURE EXCEPT ![XDVD_SIGNATURE_SIZE] = 66]

\* the signature in sectors 2 and 5, with different roots: the root of
\* sector 2, at sector 0x01020304, holds one file "m"
TwoSignatureDisc ==
    [len |-> 8 * SectorSize, fill |-> 0,
     extents |->
       {VolumeDescriptor(0, NearSignature, BlockSector(3), 16),
        VolumeDescriptor(2 * SectorSize, XDVD_SIGNATURE, 16909060, 16),
        VolumeDescriptor(5 * SectorSize, XDVD_SIGNATURE, BlockSector(2), 16),
        RecordIn(5, 2, 0, 0, 0, 40, 1, 128, <<109>>)}]

\* root: directory "e" of size 0, directory "z" whose one file record has
\* a name of length 0, file "m", directory "w" holding only the empty
\* directory "v"
EmptyDirDisc(k) ==
    [len |-> (k + 8) * SectorSize, fill |-> 0,
     extents |->
       {VolumeDescriptor(k * SectorSize, XDVD_SIGNATURE, BlockSector(1), 64),
        RecordIn(k, 1, 0, 0, 16, 0, 0, ATTR_DIR, <<101>>),
        RecordIn(k, 1, 16, 0, 32, BlockSector(2), 16, ATTR_DIR, <<122>>),
        RecordIn(k, 1, 32, 0, 48, 40, 1, 128, <<109>>),
        RecordIn(k, 1, 48, 0, 0, BlockSector(3), 16, ATTR_DIR, <<119>>),
        RecordIn(k, 2, 0, 0, 0, 41, 2, 128, <<>>),
        RecordIn(k, 3, 0, 0, 0, 0, 0, ATTR_DIR, <<118>>)}]

\* root: directory "d" with left -> file "a" and right -> file "z";
\* d: directory "e" with right -> file "y"; e, in the last block: file "x"
NestedDisc(k, len) ==
    [len |-> len, fill |-> 0,
     extents |->
       {VolumeDescriptor(k * SectorSize, XDVD_SIGNATURE, BlockSector(1), 48),
        RecordIn(k, 1, 0, 16, 32, BlockSector(2), 32, ATTR_DIR, <<100>>),
        RecordIn(k, 1, 16, 0, 0, 40, 1, 128, <<97>>),
        RecordIn(k, 1, 32, 0, 0, 41, 2, 128, <<122>>),
        RecordIn(k, 2, 0, 0, 16, BlockSector(4), 20, ATTR_DIR, <<101>>),
        RecordIn(k, 2, 16, 0, 0, 42, 3, 128, <<121>>),
        RecordIn(k, 4, 0, 0, 0, 43, 4, 128, <<120>>)}]

\* a name of 255 bytes, the most the name length byte can say
LongName == [j \in 1..255 |-> 110]

\* directories with 255 byte names nested four deep, a file "q" in the
\* innermost, and a file "z" after the outermost
LongNameDisc(k) ==
    [len |-> (k + 16) * SectorSize, fill |-> 0,
     extents |->
       {VolumeDescriptor(k * SectorSize, XDVD_SIGNATURE, BlockSector(1), 288),
        RecordIn(k, 1, 0, 0, 272, BlockSector(2), 272, ATTR_DIR, LongName),
        RecordIn(k, 1, 272, 0, 0, 40, 1, 128, <<122>>),
        RecordIn(k, 2, 0, 0, 0, BlockSector(3), 272, ATTR_DIR, LongName),
        RecordIn(k, 3, 0, 0, 0, BlockSector(4), 544, ATTR_DIR, LongName),
        RecordIn(k, 4, 0, 0, 272, 41, 2, 128, LongName),
        RecordIn(k, 4, 272, 0, 0, BlockSector(5), 16, ATTR_DIR, LongName),
        RecordIn(k, 5, 0, 0, 0, 42, 3, 128, <<113>>)}]

\* the sectors the volume descriptor is put in
SigSectors == {0, 31, 32, 40}

ExampleDiscs ==
    {ExampleDisc(k, (k + 11) * SectorSize, fill) :
        k \in SigSectors, fill \in {0, 255}}
    \cup {ExampleDisc(32, len, 0) :
            len \in {(34 * SectorSize) + 10, (33 * SectorSize) + 30,
                     (32 * SectorSize) + 100}}

\* whole, cut inside the block of e, and cut right before it
NestedDiscs ==
    {NestedDisc(k, (k + cut[1]) * SectorSize + cut[2]) :
        k \in {31, 32}, cut \in {<<12, 0>>, <<4, 5>>, <<4, 0>>}}

Images ==
    ExampleDiscs \cup NestedDiscs
    \cup {NoSignatureDisc((3 * SectorSize) + 100, NearSignature),
          NoSignatureDisc(0, XDVD_SIGNATURE), TwoSignatureDisc,
          EmptyDirDisc(32), LongNameDisc(32)}

\* root: file "m" with left -> file "c", whose left pointer is its own
\* offset
SelfLeftDisc ==
    [len |-> 40 * SectorSize, fill |-> 0,
     extents |->
       {VolumeDescriptor(32 * SectorSize, XDVD_SIGNATURE, BlockSector(1), 32),
        RecordIn(32, 1, 0, 16, 0, 40, 1, 128, <<109>>),
        RecordIn(32, 1, 16, 16, 0, 41, 2, 128, <<99>>)}]

\* root: file "m" with right -> file "c" with right -> file "e", whose
\* right pointer leads back to "c"
RightCycleDisc ==
    [len |-> 40 * SectorSize, fill |-> 0,
     extents |->
       {VolumeDescriptor(32 * SectorSize, XDVD_SIGNATURE, BlockSector(1), 48),
        RecordIn(32, 1, 0, 0, 16, 40, 1, 128, <<109>>),
        RecordIn(32, 1, 16, 0, 32, 41, 2, 128, <<99>>),
        RecordIn(32, 1, 32, 0, 16, 42, 3, 128, <<101>>)}]

\* root: directory "d" whose block is the root block itself
SelfDirDisc ==
    [len |-> 40 * SectorSize, fill |-> 0,
     extents |->
       {VolumeDescriptor(32 * SectorSize, XDVD_SIGNATURE, BlockSector(1), 16),
        RecordIn(32, 1, 0, 0, 0, BlockSector(1), 16, ATTR_DIR, <<100>>)}]

\* root: file "a", then directory "d"; d: directory "e" whose block is the
\* root block
AncestorDirDisc ==
    [len |-> 40 * SectorSize, fill |-> 0,
     extents |->
       {VolumeDescriptor(32 * SectorSize, XDVD_SIGNATURE, BlockSector(1), 32),
        RecordIn(32, 1, 0, 0, 16, 40, 1, 128, <<97>>),
        RecordIn(32, 1, 16, 0, 0, BlockSector(2), 16, ATTR_DIR, <<100>>),
        RecordIn(32, 2, 0, 0, 0, BlockSector(1), 32, ATTR_DIR, <<101>>)}]

\* root of 32 bytes: file "m" with right -> a file record at 16 whose
\* name of nlen bytes starts at byte 30; with nlen up to 2 it ends inside
\* the block, with more it runs past its end
LongTailDisc(nlen) ==
    [len |-> 40 * SectorSize, fill |-> 0,
     extents |->
       {VolumeDescriptor(32 * SectorSize, XDVD_SIGNATURE, BlockSector(1), 32),
        RecordIn(32, 1, 0, 0, 16, 40, 1, 128, <<109>>),
        RecordIn(32, 1, 16, 0, 0, 41, 2, 128, [j \in 1..nlen |-> 116])}]

\* images that no well-formed disc gives: pointers that form cycles,
\* directories that hold themselves, names that leave their block
DamagedImages ==
    {SelfLeftDisc, RightCycleDisc, SelfDirDisc, AncestorDirDisc}
    \cup {LongTailDisc(nlen) : nlen \in {1, 2, 3, 5}}

\* main() has opened the image; xbfs_init starts with the cursor at 0 and
\* filesystem_base_offset = 0, before tree_empty()
InitMount ==
    /\ image \in Images
    /\ ipc = "scan"
    /\ vol = [base |-> 0, root_sector |-> 0, root_size |-> 0, sig |-> -1]
    /\ stack = <<>>
    /\ loads = <<>>
    /\ past = 0
    /\ oob = FALSE
    /\ tree = <<>>
    /\ calls = <<>>
    /\ FuseQuiet

\* as InitMount, on a damaged image
InitDamaged ==
    /\ image \in DamagedImages
    /\ ipc = "scan"
    /\ vol = [base |-> 0, root_sector |-> 0, root_size |-> 0, sig |-> -1]
    /\ stack = <<>>
    /\ loads = <<>>
    /\ past = 0
    /\ oob = FALSE
    /\ tree = <<>>
    /\ calls = <<>>
    /\ FuseQuiet

NextMount ==
    \/ ScanSector
    \/ RecurseDirectory
    \/ SubtreeEnter
    \/ SubtreeFile
    \/ SubtreeRight
    \/ ParserReturn

\* xbfs_init: the signature scan and the construction of the tree
SpecMount == InitMount /\ [][NextMount]_vars

\* xbfs_init on the damaged images
SpecDamaged == InitDamaged /\ [][NextMount]_vars

----------------------------------------------------------------------------
(* Claims about the PathTree *)

\* the i-th tree_insert call is answered by tree_find_entry("/" + path)
\* with a file node holding exactly the offset and size of that call
FoundAsInserted(i) ==
    LET node == tree_find_entry(tree, 1, Abs(calls[i].path)) IN
    /\ node # NULL
    /\ tree[node].is_dir = 0
    /\ tree[node].offset = calls[i].offset
    /\ tree[node].size = calls[i].size

\* a path that names a file: not empty and not ending in '/'
IsFilePath(p) == p # <<>> /\ p[Len(p)] # Slash

\* C1: after any sequence of tree_insert calls on the empty tree, for
\* every call insert(P, offset, size) of the sequence whose P names a file,
\* tree_find_entry("/" + P) returns a file node with exactly the offset
\* and size passed in that call.
C1_EveryInsertFound ==
    \A i \in 1..Len(calls) :
        IsFilePath(calls[i].path) => FoundAsInserted(i)

\* the direct children of node n that are directories
DirChildren(T, n) == {c \in Children(T, n) : T[c].is_dir # 0}

\* the paths getattr is asked about: "/" and "/" + p for every input path
QueryPaths == {Abs(p) : p \in Paths}

\* C2: in every tree reachable by inserts, nsubdirs of every node equals
\* the number of its direct children that are directories; getattr on a
\* directory with N distinct immediate subdirectories reports link count
\* 2 + N whatever files it holds, and getattr on a file reports 1.
C2_LinkCount ==
    /\ \A n \in 1..Len(tree) :
          tree[n].nsubdirs = Cardinality(DirChildren(tree, n))
    /\ \A path \in QueryPaths :
          LET node == tree_find_entry(tree, 1, path)
              st   == tree_getattr(tree, path)
          IN  node # NULL =>
                /\ st.ret = 0
                /\ tree[node].is_dir # 0 =>
                      st.st_nlink = 2 + Cardinality(
                          {tree[c].name : c \in DirChildren(tree, node)})
                /\ tree[node].is_dir = 0 => st.st_nlink = 1

\* C2 witness: a directory with one subdirectory and at least one file
\* reports link count 3, and some file reports link count 1
C2_Witness ==
    /\ \E path \in QueryPaths :
          LET node == tree_find_entry(tree, 1, path) IN
          /\ node # NULL
          /\ tree[node].is_dir # 0
          /\ Cardinality(DirChildren(tree, node)) = 1
          /\ Children(tree, node) # DirChildren(tree, node)
          /\ tree_getattr(tree, path).st_nlink = 3
    /\ \E path \in QueryPaths :
          LET node == tree_find_entry(tree, 1, path) IN
          /\ node # NULL
          /\ tree[node].is_dir = 0
          /\ tree_getattr(tree, path).st_nlink = 1

\* C11: in every tree reachable by inserts, a file node has no children:
\* insert of "d/x" descends into an existing child d only if d is a
\* directory, so file "d" and "d/x", in either order, never put a node
\* under a node that is not a directory.
C11_FileHasNoChildren ==
    \A n \in DOMAIN tree : tree[n].is_dir = 0 => tree[n].sub = NULL

\* the first call of the history that inserted the path of call i
FirstInsertOf(i) ==
    CHOOSE j \in 1..i :
        /\ calls[j].path = calls[i].path
        /\ \A h \in 1..(j - 1) : calls[h].path # calls[i].path

\* the sequence names no name twice
NoRepeats(names) ==
    \A i, j \in DOMAIN names : i # j => names[i] # names[j]

\* C12: in every tree reachable by inserts, the direct children of a node
\* have pairwise distinct names; a leaf whose name is already there is
\* rejected or ignored: find_entry returns the offset and size of the
\* first insert of the path, and readdir lists every name once.
C12_DistinctChildNames ==
    /\ \A n \in DOMAIN tree : NoRepeats(tree_readdir_names(tree, n))
    /\ \A p \in QueryPaths : NoRepeats(tree_readdir(tree, p).names)
    /\ \A i \in DOMAIN calls :
         IsFilePath(calls[i].path) => FoundAsInserted(FirstInsertOf(i))

----------------------------------------------------------------------------
(* Claims about the FUSE operations *)

\* the calls of the given operation that have returned
Returned(op) == {c \in DOMAIN pc : pc[c] = "ret" /\ req[c].op = op}

\* C3: a read of a file of size bytes whose read() delivers every byte
\* asked for returns min(length, size - offset) bytes when offset < size
\* and 0 when offset >= size; a read of a directory fails with EISDIR and
\* a read of an absent path with ENOENT, both without any lseek or read
\* on the descriptor.
C3_ReadClipped ==
    \A c \in Returned("read") :
        LET node == tree_find_entry(tree, 1, req[c].path) IN
        IF node = NULL THEN loc[c].ret = -ENOENT /\ loc[c].nio = 0
        ELSE IF tree[node].is_dir # 0 THEN
            loc[c].ret = -EISDIR /\ loc[c].nio = 0
        ELSE IF req[c].offset >= tree[node].size THEN loc[c].ret = 0
        ELSE /\ loc[c].nio = 2
             /\ loc[c].full =>
                   loc[c].ret = Min(req[c].size,
                                    tree[node].size - req[c].offset)

\* C3 witness: a read reaching past the end of the file has returned the
\* size - offset bytes that remain
C3_Witness ==
    \E c \in Returned("read") :
        LET node == tree_find_entry(tree, 1, req[c].path) IN
        /\ node # NULL
        /\ tree[node].is_dir = 0
        /\ req[c].offset > 0
        /\ req[c].offset < tree[node].size
        /\ req[c].offset + req[c].size > tree[node].size
        /\ loc[c].full
        /\ loc[c].ret = tree[node].size - req[c].offset

\* C5: open fails with EROFS for every intent that requests writing
\* (O_WRONLY and O_RDWR), fails with ENOENT when the path is absent, and
\* otherwise returns 0; the tree is left as it was.
C5_OpenReadOnly ==
    /\ tree = TreeOf(MountScript)
    /\ \A c \in Returned("open") :
        LET absent == tree_find_entry(tree, 1, req[c].path) = NULL
            writes == req[c].flags \in {O_WRONLY, O_RDWR}
        IN  /\ writes => loc[c].ret \in
                            {-EROFS} \cup (IF absent THEN {-ENOENT} ELSE {})
            /\ (~writes /\ absent) => loc[c].ret = -ENOENT
            /\ (~writes /\ ~absent) => loc[c].ret = 0

\* the position a read call's transfer has to start at
Target(c) == tree[loc[c].node].offset + req[c].offset

\* the calls between pthread_mutex_lock and pthread_mutex_unlock
Locked == {c \in DOMAIN pc : pc[c] \in {"seek", "read", "unlock"}}

\* at most one call is between lock and unlock, it holds the mutex, the
\* cursor it reads at is the one it set, and every transfer made started
\* at the node's data offset plus the request's offset
SeekReadAtomic ==
    /\ Cardinality(Locked) <= 1
    /\ \A c \in Locked : mutex = c
    /\ \A c \in DOMAIN pc :
        /\ pc[c] = "read" => fdpos = Target(c)
        /\ loc[c].at # -1 => loc[c].at = Target(c)

\* C4: under any interleaving of concurrent read calls the lseek and the
\* read of one call are not separated by another call's lseek or read (at
\* most one call is between lock and unlock, so each read starts at its
\* own node's offset + offset), and the lock is released after the read
\* whether it succeeded or failed, so every call waiting for the lock
\* returns.
C4_SeekReadAtomicAndLive ==
    /\ []SeekReadAtomic
    /\ \A c \in 1..NumCalls : (pc[c] = "lock") ~> (pc[c] = "ret")

\* C4 witness: one call waits for the lock while another, which found the
\* cursor where an earlier read had left it, is between its lseek and read
C4_Witness ==
    \E c \in DOMAIN pc, d \in DOMAIN pc :
        /\ pc[c] = "read"
        /\ pc[d] = "lock"
        /\ mutex = c
        /\ fdpos = Target(c)
        /\ Target(d) # Target(c)

----------------------------------------------------------------------------
(* Claims about xbfs_init *)

\* the first XDVD_SIGNATURE_SIZE bytes of sector k are the signature
SectorHasSignature(img, k) ==
    \A j \in 1..XDVD_SIGNATURE_SIZE :
        Byte(img, (k * SectorSize) + (j - 1)) = XDVD_SIGNATURE[j]

\* the sectors the image holds whole
WholeSectors(img) == 0..((img.len \div SectorSize) - 1)

\* the whole sectors that start with the signature and are not behind a
\* sector that is cut short
SignatureSectors(img) == {k \in WholeSectors(img) : SectorHasSignature(img, k)}

FirstSignature(img) ==
    CHOOSE k \in SignatureSectors(img) : \A h \in SignatureSectors(img) : k <= h

\* the volume descriptor the image was laid out with in sector k
DescriptorAt(img, k) ==
    CHOOSE e \in img.extents : e.kind = "vd" /\ e.at = k * SectorSize

\* C6: the scan looks at sectors 0, 1, 2, ... in order and stops at the
\* first sector k that starts with the signature; then the base offset is
\* (k - 32) * 2048 and root_sector, root_size are the little-endian words
\* at 0x14 and 0x18 of sector k; when a sector read is short before any
\* match, initialization fails and no tree is built.
C6_SignatureScan ==
    /\ ipc = "scan" =>
         /\ fdpos = vol.base
         /\ fdpos % SectorSize = 0
         /\ \A h \in SignatureSectors(image) : h >= fdpos \div SectorSize
         /\ tree = <<>>
    /\ ipc \in {"build", "done", "crashed"} =>
         /\ SignatureSectors(image) # {}
         /\ LET k == FirstSignature(image)
            IN  /\ vol.sig = k
                /\ vol.base = (k - 32) * SectorSize
                /\ vol.root_sector = DescriptorAt(image, k).sector
                /\ vol.root_size = DescriptorAt(image, k).size
    /\ ipc = "failed" =>
         /\ SignatureSectors(image) = {}
         /\ fdpos = image.len
         /\ tree = <<>>
         /\ calls = <<>>

\* the signature is found in sector 40 behind 40 sectors without it, and
\* the root is read from the words of that sector
C6_Witness ==
    /\ ipc = "build"
    /\ vol.sig = 40
    /\ vol.base = (40 - 32) * SectorSize
    /\ vol.root_sector = 33
    /\ vol.root_size = 56
    /\ tree = tree_empty

\* a short read ends the scan of an image that holds sectors but no
\* signature
C6_WitnessNotFound ==
    /\ ipc = "failed"
    /\ image.len > 3 * SectorSize
    /\ tree = <<>>

\* the directory record the image was laid out with at byte pos
RecordAt(img, pos) ==
    CHOOSE e \in img.extents : e.kind = "rec" /\ e.at = pos

\* the image holds the size bytes from pos on
Holds(img, pos, size) == pos >= 0 /\ pos + size <= img.len

\* The insertions the layout of the image calls for: the records of a
\* block taken left subtree, record, right subtree from the record at
\* off, a file record giving one insertion and a directory record the
\* insertions of its block, if the image holds that block whole.
RECURSIVE InOrder(_, _, _, _, _, _)
InOrder(img, base, prefix, block, size, off) ==
    IF off + 13 >= size THEN <<>>
    ELSE
      LET r == RecordAt(img, block + off)
          sub == SectorOffset(base, r.sector)
          left == IF r.left = 0 THEN <<>>
                  ELSE InOrder(img, base, prefix, block, size, 4 * r.left)
          right == IF r.right = 0 THEN <<>>
                   ELSE InOrder(img, base, prefix, block, size, 4 * r.right)
          current ==
            IF r.attr = ATTR_DIR
            THEN IF r.size > 0 /\ Holds(img, sub, r.size)
                 THEN InOrder(img, base, prefix \o r.name \o <<Slash>>,
                              sub, r.size, 0)
                 ELSE <<>>
            ELSE << [path |-> prefix \o r.name, offset |-> sub,
                     size |-> r.size] >>
      IN  left \o current \o right

\* the insertions the whole image calls for, from its root block
Expected(img) ==
    LET k == FirstSignature(img)
        base == (k - 32) * SectorSize
        vd == DescriptorAt(img, k)
        root == SectorOffset(base, vd.sector)
    IN  IF vd.size > 0 /\ Holds(img, root, vd.size)
        THEN InOrder(img, base, <<>>, root, vd.size, 0)
        ELSE <<>>

IsPrefix(s, t) == Len(s) <= Len(t) /\ s = SubSeq(t, 1, Len(s))

\* the file node found for the path, with its offset and size
FoundFile(path, offset, size) ==
    LET node == tree_find_entry(tree, 1, path)
    IN  /\ node # NULL
        /\ tree[node].is_dir = 0
        /\ tree[node].offset = offset
        /\ tree[node].size = size

\* the image is the one of the example, whole, with its descriptor in
\* sector k
IsExample(k) ==
    \E fill \in {0, 255} : image = ExampleDisc(k, (k + 11) * SectorSize, fill)

\* C7: the records of a directory block are visited left subtree, record,
\* right subtree from offset 0; a file record is inserted as prefix + name
\* at base + sector * 2048 with its size, a directory record is entered
\* with prefix + name + "/". For the root whose record points left to file
\* "a.txt" and right to directory "sub" holding "b.txt", /a.txt and
\* /sub/b.txt are found with those offsets and the root has nsubdirs = 1.
C7_LeftCurrentRight ==
    /\ ipc \in {"build", "done", "crashed"} => IsPrefix(calls, Expected(image))
    /\ ipc = "done" => calls = Expected(image)
    /\ \A k \in SigSectors :
         ipc = "done" /\ IsExample(k) =>
           /\ FoundFile(<<Slash, 97, 46, 116, 120, 116>>,
                        (k + 9) * SectorSize, 7)
           /\ FoundFile(<<Slash, 115, 117, 98, Slash, 98, 46, 116, 120, 116>>,
                        (k + 10) * SectorSize, 9)
           /\ tree[1].nsubdirs = 1

\* the example has been parsed: a.txt from the left, the root's record,
\* then b.txt from the block of sub on the right
C7_Witness ==
    /\ ipc = "done"
    /\ IsExample(40)
    /\ Len(calls) = 3
    /\ calls[1].path = <<97, 46, 116, 120, 116>>
    /\ calls[3].path = <<115, 117, 98, Slash, 98, 46, 116, 120, 116>>
    /\ Len(loads) = 2

\* C8: when prefix + name (with the "/" and the terminator of a
\* directory) would exceed NAME_MAX_SIZE bytes, the entry fails with a
\* bounds error and nothing is written past name_copy; no path that does
\* not fit is inserted, and the parser goes on with the other entries.
C8_NameTooLong ==
    /\ past = 0
    /\ ipc # "crashed"
    /\ \A i \in DOMAIN calls : Len(calls[i].path) + 1 <= NAME_MAX_SIZE

\* the image with everything it was laid out with, nothing cut off
Whole(img) ==
    LET ends == {e.at + ExtentLen(e) : e \in img.extents}
        last == IF ends = {} THEN 0
                ELSE CHOOSE x \in ends : \A y \in ends : y <= x
    IN  [img EXCEPT !.len = last + SectorSize]

\* the directories whose load came back short
FailedLoads == {i \in DOMAIN loads : ~loads[i].ok}

\* the path lies under a directory whose load came back short
UnderFailedLoad(path) ==
    \E i \in FailedLoads : HasPrefix(path, CStr(loads[i].name))

NotUnderFailedLoad(call) == ~UnderFailedLoad(call.path)

\* this step is a directory load that comes back short
LoadFails == loads' # loads /\ ~loads'[Len(loads')].ok

\* C9: when the read of a directory block returns fewer than size bytes,
\* only the subtree of that directory is skipped. The failing load changes
\* neither the tree nor the insertions made and ends only its own
\* activation; every entry inserted is found with its offset and size; and
\* at the end the insertions are those of the uncut image without the
\* entries under the directories whose load failed.
C9_ShortLoadSkipsSubtree ==
    /\ [][LoadFails =>
            /\ tree' = tree
            /\ calls' = calls
            /\ stack' = SubSeq(stack, 1, Len(stack) - 1)
            /\ ipc' = IF Len(stack) = 1 THEN "done" ELSE "build"]_vars
    /\ [](FailedLoads # {} =>
            \A i \in DOMAIN calls :
                FoundFile(Abs(calls[i].path), calls[i].offset, calls[i].size))
    /\ [](ipc = "done" =>
            calls = SelectSeq(Expected(Whole(image)), NotUnderFailedLoad))

\* the image is cut inside the block of d/e: a is inserted before the
\* failed load of d/e, d/y and z after it, and d/e/x is not
C9_Witness ==
    /\ ipc = "done"
    /\ image = NestedDisc(32, (36 * SectorSize) + 5)
    /\ \E i \in FailedLoads : CStr(loads[i].name) = <<100, Slash, 101, Slash>>
    /\ Len(calls) = 3
    /\ calls[1].path = <<97>>
    /\ calls[2].path = <<100, Slash, 121>>
    /\ calls[3].path = <<122>>
    /\ tree_find_entry(tree, 1, <<Slash, 100, Slash, 101, Slash, 120>>) = NULL

\* some file node lies below node n
RECURSIVE HasFileBelow(_, _)
HasFileBelow(T, n) ==
    \E c \in Children(T, n) : T[c].is_dir = 0 \/ HasFileBelow(T, c)

\* C10: in every tree parsing reaches, every directory node but the root
\* has a file node among its descendants: a directory no file was placed
\* under, one whose records have names of length 0 included, is not in
\* the tree.
C10_NoEmptyDirectory ==
    \A n \in DOMAIN tree :
        n # 1 /\ tree[n].is_dir # 0 => HasFileBelow(tree, n)

\* two activations work on the same thing: the same record of the same
\* block, or the same directory block
SameWork(f, g) ==
    /\ f.fn = g.fn
    /\ IF f.fn = "sub"
       THEN f.bufbase = g.bufbase /\ f.size = g.size /\ f.off = g.off
       ELSE f.sector = g.sector /\ f.size = g.size

\* an activation is entered while an activation for the same work is
\* still running below it; what it does depends on nothing but the bytes
\* of the image, so it enters itself again, without end
Reentered ==
    \E i, j \in DOMAIN stack : i < j /\ SameWork(stack[i], stack[j])

\* C13: xbfs_init terminates for every image, also when a left or right
\* pointer names its own record or the pointers form a cycle, and when the
\* sector of a directory record is that of the directory holding it or of
\* an ancestor: no activation is entered again for work that is still
\* running, and the recursion does not use up the stack.
C13_TraversalTerminates ==
    /\ ~Reentered
    /\ ipc = "crashed" => past > 0

\* C14: the parser reads a directory buffer of size bytes only at indices
\* in [0, size): a record at offset o is decoded only if its 14 header
\* bytes and all its name bytes lie inside the buffer, else the position
\* counts as absent.
C14_ReadsInsideBuffer ==
    /\ ~oob
    /\ \A i \in DOMAIN stack :
         stack[i].fn = "sub" /\ stack[i].st \in {"right", "ret"} =>
           LET o == stack[i].off
               nlen == Byte(image, stack[i].bufbase + o + 13)
           IN  o + 13 + nlen < stack[i].size

====
